---------------------------- MODULE Spec2Model ----------------------------
(***************************************************************************)
(* ECOnstruct demo client: the upload-and-pick page                        *)
(* (src/src/UploadAndPickLeaflet.jsx) and the dashboard                    *)
(* (src/src/DashboardCharts.jsx).                                          *)
(*                                                                         *)
(* JavaScript strings are sequences of one-character strings.  A value     *)
(* that may be null/undefined is a sequence of length 0 (absent) or 1.     *)
(* Map positions {lat, lng} are abstracted to named points.                *)
(* Floating-point quantities are kept as exact scaled integers:            *)
(*   - kg values in hundredths of a kg (EF_GRID = 0.45 = 45/100);          *)
(*   - Math.sin / Math.cos results in millionths, with the sign of the     *)
(*     tiny non-zero double the library returns where the real value is 0. *)
(***************************************************************************)
EXTENDS Integers, Sequences, FiniteSets, TLC

VARIABLES
    page,         \* which route is mounted: "picker" | "dashboard" | "flows"
    fileName,     \* useState("")            UploadAndPickLeaflet.jsx:34
    fileNumber,   \* useState(null)          UploadAndPickLeaflet.jsx:35
    fileError,    \* useState("")            UploadAndPickLeaflet.jsx:36
    marker,       \* useState(null)          UploadAndPickLeaflet.jsx:38
    center,       \* useState({lat,lng})     UploadAndPickLeaflet.jsx:39
    search,       \* useState("")            UploadAndPickLeaflet.jsx:40
    searchError,  \* useState("")            UploadAndPickLeaflet.jsx:41
    inflight,     \* fetches of doSearch awaiting their response
    code,         \* route parameter of /dashboard/:code (absent = undefined)
    navState,     \* location.state handed to navigate()
    view,         \* what DashboardCharts computed on its last render
    flowIn,       \* argument of the flow functions applied on their own
    flowOut       \* their results

vars == <<page, fileName, fileNumber, fileError, marker, center, search,
          searchError, inflight, code, navState, view, flowIn, flowOut>>

pickerVars == <<fileName, fileNumber, fileError, marker, center, search,
                searchError, inflight>>

dashVars == <<code, navState, view>>

flowVars == <<flowIn, flowOut>>

-----------------------------------------------------------------------------
(* Bounds of the model *)

MaxCodeLen == 4

MaxNameLen == 3

MaxInflight == 2

MaxKWh == 110

-----------------------------------------------------------------------------
(* Strings and numbers *)

Digits == {"0", "1", "2", "3", "4", "5", "6", "7", "8", "9"}

DigitChars == <<"0", "1", "2", "3", "4", "5", "6", "7", "8", "9">>

Min(a, b) == IF a <= b THEN a ELSE b

Max(a, b) == IF a >= b THEN a ELSE b

Sgn(x) == IF x > 0 THEN 1 ELSE IF x < 0 THEN 0 - 1 ELSE 0

\* Number(c) for a one-digit string c.
DigitVal(c) ==
    CASE c = "0" -> 0 [] c = "1" -> 1 [] c = "2" -> 2 [] c = "3" -> 3
      [] c = "4" -> 4 [] c = "5" -> 5 [] c = "6" -> 6 [] c = "7" -> 7
      [] c = "8" -> 8 [] c = "9" -> 9

\* parseInt(ds, 10) for a non-empty all-digit string ds.
RECURSIVE ParseInt(_)
ParseInt(ds) ==
    IF ds = <<>> THEN 0
    ELSE 10 * ParseInt(SubSeq(ds, 1, Len(ds) - 1)) + DigitVal(ds[Len(ds)])

\* String(n) for an integer n >= 0.
RECURSIVE NumToString(_)
NumToString(n) ==
    IF n < 10 THEN <<DigitChars[n + 1]>>
    ELSE NumToString(n \div 10) \o <<DigitChars[(n % 10) + 1]>>

\* s.padStart(3, "0")
PadStart3(s) ==
    IF Len(s) >= 3 THEN s ELSE [i \in 1..(3 - Len(s)) |-> "0"] \o s

\* s.slice(0, 3)
Slice3(s) == SubSeq(s, 1, Min(3, Len(s)))

IsDigit(c) == c \in Digits

\* s.replace(/\D/g, "")
StripNonDigits(s) == SelectSeq(s, IsDigit)

\* All strings over alphabet A of length 0..n.
StringsUpTo(A, n) == UNION {[1..k -> A] : k \in 0..n}

-----------------------------------------------------------------------------
(* DashboardCharts.jsx: the pure helpers *)

\* EF_GRID = 0.45 kg/kWh, in hundredths.
EF_GRID == 45

\* useDigitsToKwh without its .slice(0, 3).
useDigitsToKwh_NoSlice(c) ==
    LET raw == IF c = <<>> THEN <<>> ELSE c[1]
        s == PadStart3(StripNonDigits(raw))
    IN  [code |-> s, homeKWh |-> DigitVal(s[1]), solarKWh |-> DigitVal(s[2]),
         gridKWh |-> DigitVal(s[3])]

\* useDigitsToKwh(code); c is the optional route parameter.
useDigitsToKwh(c) ==
    LET raw == IF c = <<>> THEN <<>> ELSE c[1]        \* String(code || "")
        s == Slice3(PadStart3(StripNonDigits(raw)))
    IN  [code |-> s, homeKWh |-> DigitVal(s[1]), solarKWh |-> DigitVal(s[2]),
         gridKWh |-> DigitVal(s[3])]

\* Math.floor(x * 0.11), Math.floor(x * 0.19), Math.floor(x * 0.4),
\* Math.floor(x * 0.25) for an integer x >= 0.
FloorPct(x, pct) == (x * pct) \div 100

\* allocSolarFlows whose remainder forgets the share sent to the home.
allocSolarFlows_NoHomeShare(solarKWh) ==
    LET toBattery == FloorPct(solarKWh, 11)
        toHome == FloorPct(solarKWh, 19)
        toGrid == Max(solarKWh - toBattery, 0)
    IN  [toBattery |-> toBattery, toHome |-> toHome, toGrid |-> toGrid]

\* allocSolarFlows with Math.round in place of Math.floor.
allocSolarFlows_Round(solarKWh) ==
    LET toBattery == (2 * solarKWh * 11 + 100) \div 200
        toHome == (2 * solarKWh * 19 + 100) \div 200
        toGrid == Max(solarKWh - toBattery - toHome, 0)
    IN  [toBattery |-> toBattery, toHome |-> toHome, toGrid |-> toGrid]

allocSolarFlows(solarKWh) ==
    LET toBattery == FloorPct(solarKWh, 11)
        toHome == FloorPct(solarKWh, 19)
        toGrid == Max(solarKWh - toBattery - toHome, 0)
    IN  [toBattery |-> toBattery, toHome |-> toHome, toGrid |-> toGrid]

allocHomeSources(homeKWh, fromSolar, fromBattery) ==
    LET s == Min(fromSolar, FloorPct(homeKWh, 40))
        b == Min(fromBattery, FloorPct(homeKWh, 25))
        g == Max(homeKWh - s - b, 0)
    IN  [fromSolar |-> s, fromBattery |-> b, fromGrid |-> g]

\* gaugeVal without its Math.min(100, ...).
gaugeVal_NoClamp(toBattery) == toBattery * 10

gaugeVal(toBattery) == Min(100, toBattery * 10)

totalKWh(homeKWh, solarKWh, gridKWh) == homeKWh + solarKWh + gridKWh

\* emissionsKg without the parentheses around the sum.
emissionsKg_NoParens(homeKWh, gridKWh) == homeKWh + gridKWh * EF_GRID

\* In hundredths of a kg.
emissionsKg(homeKWh, gridKWh) == (homeKWh + gridKWh) * EF_GRID

\* In hundredths of a kg.
avoidedKg(solarKWh) == solarKWh * EF_GRID


-----------------------------------------------------------------------------
(* Math.sin, Math.cos and Math.round as the double arithmetic computes them *)

Million == 1000 * 1000

\* Math.sin((k / 3) * Math.PI) in millionths, k = 0..12.
SinThirdTab ==
    <<0, 866025, 866025, 0, -866025, -866025, 0, 866025, 866025, 0,
      -866025, -866025, 0>>

\* Sign of the double Math.sin((k / 3) * Math.PI) where the real sine is 0:
\* sin(0) = 0, sin(PI) = 1.2e-16, sin(2 PI) = -2.4e-16, sin(3 PI) = 3.7e-16,
\* sin(4 PI) = -4.9e-16.
SinThirdErr == <<0, 0, 0, 1, 0, 0, -1, 0, 0, 1, 0, 0, -1>>

\* Math.cos((k / 3) * Math.PI) in millionths, k = 0..12 (never 0).
CosThirdTab ==
    <<1000000, 500000, -500000, -1000000, -500000, 500000, 1000000, 500000,
      -500000, -1000000, -500000, 500000, 1000000>>

\* Math.cos((k / 4) * Math.PI) in millionths, k = 0..12.
CosQuarterTab ==
    <<1000000, 707107, 0, -707107, -1000000, -707107, 0, 707107, 1000000,
      707107, 0, -707107, -1000000>>

\* cos(PI/2) = 6.1e-17, cos(3 PI/2) = -1.8e-16, cos(5 PI/2) = 3.1e-16.
CosQuarterErr == <<0, 0, 1, 0, 0, 0, -1, 0, 0, 0, 1, 0, 0>>

\* Math.sin((k / 5) * Math.PI) in millionths, k = 0..12.
SinFifthTab ==
    <<0, 587785, 951057, 951057, 587785, 0, -587785, -951057, -951057,
      -587785, 0, 587785, 951057>>

\* sin(PI) = 1.2e-16, sin(2 PI) = -2.4e-16.
SinFifthErr == <<0, 0, 0, 0, 0, 1, 0, 0, 0, 0, -1, 0, 0>>

SinThird(k) == [v |-> SinThirdTab[k + 1], e |-> SinThirdErr[k + 1]]

CosThird(k) == [v |-> CosThirdTab[k + 1], e |-> 0]

CosQuarter(k) == [v |-> CosQuarterTab[k + 1], e |-> CosQuarterErr[k + 1]]

SinFifth(k) == [v |-> SinFifthTab[k + 1], e |-> SinFifthErr[k + 1]]

\* Math.round(x) for the double x that is the real number n / d (d > 0)
\* displaced by a tiny amount of sign e: the nearest integer, a tie going up
\* (toward +Infinity) unless the double lies just below the tie.
MathRound(n, d, e) ==
    LET f == (2 * n + d) \div (2 * d)
    IN  IF e < 0 /\ (2 * n + d) % (2 * d) = 0 THEN f - 1 ELSE f

\* base + Math.round(trig * (base / 2)), clamped: one field of buildSeries.
WeeklyPoint(base, trig) ==
    Max(0, base + MathRound(trig.v * base, 2 * Million, trig.e * Sgn(base)))

\* daySeries computed with the formula of buildSeries.
DayPoint_AsWeekly(base, trig) == WeeklyPoint(base, trig)

\* Math.round((base / 5) * trig + base / 2), clamped: one field of daySeries.
\* Agrees with the double arithmetic for the bases digits give (toHome in
\* 0..1 with the sine, toGrid in 0..9 with the cosine); a larger base can
\* absorb the displacement of a tie (base 9 at sin(2 PI)).
DayPoint(base, trig) ==
    Max(0, MathRound(2 * base * trig.v + 5 * base * Million, 10 * Million,
                     trig.e * Sgn(base)))

\* const pts = 12
pts == 12

\* Array.from({ length: 10 }, ...)
dayPts == 10

\* buildSeries whose loop stops one point early.
buildSeries_ShortLoop(homeKWh, solarKWh, gridKWh) ==
    [i \in 1..(pts - 1) |->
        LET t == i
        IN  [t |-> <<"W">> \o NumToString(t),
             temperature |-> WeeklyPoint(solarKWh, SinThird(t)),
             humidity |-> WeeklyPoint(homeKWh, CosQuarter(t)),
             grid |-> WeeklyPoint(gridKWh, SinFifth(t))]]

buildSeries(homeKWh, solarKWh, gridKWh) ==
    [i \in 1..pts |->
        LET t == i
        IN  [t |-> <<"W">> \o NumToString(t),
             temperature |-> WeeklyPoint(solarKWh, SinThird(t)),
             humidity |-> WeeklyPoint(homeKWh, CosQuarter(t)),
             grid |-> WeeklyPoint(gridKWh, SinFifth(t))]]

\* Entry j of the sequence is point index i = j - 1.
daySeries(toHome, toGrid) ==
    [j \in 1..dayPts |->
        LET i == j - 1
        IN  [t |-> NumToString(i) \o <<":", "0", "0">>,
             toHome |-> DayPoint(toHome, SinThird(i)),
             orientation |-> DayPoint(toGrid, CosThird(i))]]

\* One render of DashboardCharts with route parameter c.
DashboardCharts(c) ==
    LET d == useDigitsToKwh(c)
        sf == allocSolarFlows(d.solarKWh)
        hs == allocHomeSources(d.homeKWh, sf.toHome, sf.toBattery)
    IN  [normalized |-> d.code,
         homeKWh |-> d.homeKWh, solarKWh |-> d.solarKWh, gridKWh |-> d.gridKWh,
         toBattery |-> sf.toBattery, toHome |-> sf.toHome, toGrid |-> sf.toGrid,
         fromSolar |-> hs.fromSolar, fromBattery |-> hs.fromBattery,
         fromGrid |-> hs.fromGrid,
         totalKWh |-> totalKWh(d.homeKWh, d.solarKWh, d.gridKWh),
         emissionsKg |-> emissionsKg(d.homeKWh, d.gridKWh),
         avoidedKg |-> avoidedKg(d.solarKWh),
         series |-> buildSeries(d.homeKWh, d.solarKWh, d.gridKWh),
         daySeries |-> daySeries(sf.toHome, sf.toGrid),
         gaugeVal |-> gaugeVal(sf.toBattery)]

-----------------------------------------------------------------------------
(* The dashboard route opened with an arbitrary route parameter *)

CodeChars == Digits \cup {"x"}

CodeInputs == {<<>>} \cup {<<s>> : s \in StringsUpTo(CodeChars, MaxCodeLen)}

\* The state useState() gives a freshly mounted picker.
PickerMounted ==
    /\ fileName = <<>>
    /\ fileNumber = <<>>
    /\ fileError = ""
    /\ marker = "null"
    /\ center = "Auckland"
    /\ search = <<>>
    /\ searchError = ""
    /\ inflight = 0

FlowsIdle == flowIn = 0 /\ flowOut = <<>>

InitDash ==
    /\ page = "dashboard"
    /\ code \in CodeInputs
    /\ navState = <<>>
    /\ view = <<>>
    /\ PickerMounted
    /\ FlowsIdle

\* React renders the mounted DashboardCharts component.
RenderDashboard ==
    /\ page = "dashboard"
    /\ view = <<>>
    /\ view' = <<DashboardCharts(code)>>
    /\ UNCHANGED <<page, code, navState, pickerVars, flowVars>>

NextDash == RenderDashboard

SpecDash == InitDash /\ [][NextDash]_vars

-----------------------------------------------------------------------------
(* The flow functions applied on their own to any non-negative quantity *)

InitFlows ==
    /\ page = "flows"
    /\ flowIn \in 0..MaxKWh
    /\ flowOut = <<>>
    /\ code = <<>>
    /\ navState = <<>>
    /\ view = <<>>
    /\ PickerMounted

ApplyFlows ==
    /\ page = "flows"
    /\ flowOut = <<>>
    /\ flowOut' = <<[solar |-> allocSolarFlows(flowIn),
                     gauge |-> gaugeVal(allocSolarFlows(flowIn).toBattery)]>>
    /\ UNCHANGED <<page, flowIn, pickerVars, dashVars>>

NextFlows == ApplyFlows

SpecFlows == InitFlows /\ [][NextFlows]_vars

-----------------------------------------------------------------------------
(* UploadAndPickLeaflet.jsx *)

NameChars == {"a", ".", "0", "1"}

\* Names a selected File can carry (never empty).
FileNames == StringsUpTo(NameChars, MaxNameLen) \ {<<>>}

Positions == {"P1", "P2"}

SearchTexts == {<<>>, <<" ">>, <<" ", "q">>}

\* What the awaited fetch/json of doSearch can deliver: a rejection or a
\* malformed first entry (caught), an empty or non-array body, or a body
\* whose first entry parses to a position.
SearchOutcomes ==
    {[kind |-> "throw"], [kind |-> "empty"]}
        \cup {[kind |-> "hit", pos |-> p] : p \in Positions}

\* Length of the longest suffix of s without a ".".
RECURSIVE DotFreeSuffix(_)
DotFreeSuffix(s) ==
    IF s = <<>> \/ s[Len(s)] = "." THEN 0
    ELSE 1 + DotFreeSuffix(SubSeq(s, 1, Len(s) - 1))

\* name.replace(/\.[^.]+$/, ""): drop the last dot and what follows it,
\* when there is a dot and something follows it.
StripExtension(name) ==
    LET k == DotFreeSuffix(name)
    IN  IF 0 < k /\ k < Len(name) THEN SubSeq(name, 1, Len(name) - k - 1)
        ELSE name

\* Length of the longest all-digit suffix of s.
RECURSIVE DigitSuffix(_)
DigitSuffix(s) ==
    IF s = <<>> \/ ~IsDigit(s[Len(s)]) THEN 0
    ELSE 1 + DigitSuffix(SubSeq(s, 1, Len(s) - 1))

\* base.match(/(\d{1,3})$/): the leftmost start from which one to three
\* digits run to the end, so the last three digits of a longer run; <<>>
\* when base does not end in a digit.
MatchTrailingDigits(base) ==
    LET k == Min(3, DigitSuffix(base))
    IN  IF k = 0 THEN <<>>
        ELSE <<SubSeq(base, Len(base) - k + 1, Len(base))>>

\* extractTrailingNumber whose range check lets 0 through.
extractTrailingNumber_AcceptsZero(name) ==
    LET base == StripExtension(name)
        match == MatchTrailingDigits(base)
    IN  IF match = <<>>
        THEN [num |-> <<>>, error |-> "Filename must end in a number (001-100)."]
        ELSE LET n == ParseInt(match[1])
             IN  IF n < 0 \/ n > 100
                 THEN [num |-> <<>>, error |-> "Number must be 001-100."]
                 ELSE [num |-> <<n>>, error |-> ""]

extractTrailingNumber(name) ==
    LET base == StripExtension(name)
        match == MatchTrailingDigits(base)
    IN  IF match = <<>>
        THEN [num |-> <<>>, error |-> "Filename must end in a number (001-100)."]
        ELSE LET n == ParseInt(match[1])
             IN  IF n < 1 \/ n > 100
                 THEN [num |-> <<>>, error |-> "Number must be 001-100."]
                 ELSE [num |-> <<n>>, error |-> ""]

\* The change events of the file input: an empty FileList (the dialog was
\* cancelled) or one file.  extractTrailingNumber depends on the name alone,
\* so the call of line 56 is evaluated here, once per name.
FileChangeEvents ==
    {[files |-> <<>>, extracted |-> [num |-> <<>>, error |-> ""]]}
        \cup {[files |-> <<n>>, extracted |-> extractTrailingNumber(n)] :
                  n \in FileNames}

\* s.trim() over the two characters of SearchTexts.
RECURSIVE TrimStart(_)
TrimStart(s) ==
    IF s # <<>> /\ Head(s) = " " THEN TrimStart(Tail(s)) ELSE s

RECURSIVE TrimEnd(_)
TrimEnd(s) ==
    IF s # <<>> /\ s[Len(s)] = " " THEN TrimEnd(SubSeq(s, 1, Len(s) - 1))
    ELSE s

Trim(s) == TrimEnd(TrimStart(s))

\* The route code without .padStart(3, "0").
RouteCode_NoPad(n) == NumToString(n)

\* String(fileNumber).padStart(3, "0"), the code of `/dashboard/${code}`.
RouteCode(n) == PadStart3(NumToString(n))

canContinue == fileNumber # <<>> /\ fileError = "" /\ marker # "null"

Init ==
    /\ page = "picker"
    /\ PickerMounted
    /\ code = <<>>
    /\ navState = <<>>
    /\ view = <<>>
    /\ FlowsIdle

\* onFileChange(e); e.files is e.target.files, e.extracted what
\* extractTrailingNumber(f.name) returns for its first file.
onFileChange(e) ==
    /\ page = "picker"
    /\ IF e.files = <<>>
       THEN UNCHANGED <<fileName, fileNumber, fileError>>
       ELSE /\ fileName' = e.files[1]
            /\ fileNumber' = e.extracted.num
            /\ fileError' = e.extracted.error
    /\ UNCHANGED <<page, marker, center, search, searchError, inflight,
                   dashVars, flowVars>>

\* ClickHandler: a click on the map at p calls onPick = setMarker.
ClickHandler(p) ==
    /\ page = "picker"
    /\ marker' = p
    /\ UNCHANGED <<page, fileName, fileNumber, fileError, center, search,
                   searchError, inflight, dashVars, flowVars>>

\* onChange of the search input: setSearch(e.target.value).
setSearch(text) ==
    /\ page = "picker"
    /\ search' = text
    /\ UNCHANGED <<page, fileName, fileNumber, fileError, marker, center,
                   searchError, inflight, dashVars, flowVars>>

\* doSearch up to its first await: a blank query returns, any other starts
\* a fetch.
doSearch ==
    /\ page = "picker"
    /\ searchError' = ""
    /\ IF Trim(search) = <<>>
       THEN inflight' = inflight
       ELSE /\ inflight < MaxInflight
            /\ inflight' = inflight + 1
    /\ UNCHANGED <<page, fileName, fileNumber, fileError, marker, center,
                   search, dashVars, flowVars>>

\* doSearch that also clears the marker when nothing was found.
doSearchResume_ClearOnFail(o) ==
    /\ page = "picker"
    /\ inflight > 0
    /\ inflight' = inflight - 1
    /\ CASE o.kind = "empty" ->
              /\ searchError' = "No results."
              /\ marker' = "null"
              /\ UNCHANGED center
         [] o.kind = "throw" ->
              /\ searchError' = "Search failed."
              /\ UNCHANGED <<center, marker>>
         [] o.kind = "hit" ->
              /\ center' = o.pos
              /\ marker' = o.pos
              /\ UNCHANGED searchError
    /\ UNCHANGED <<page, fileName, fileNumber, fileError, search, dashVars,
                   flowVars>>

\* doSearch after its awaits, with what the request delivered.
doSearchResume(o) ==
    /\ page = "picker"
    /\ inflight > 0
    /\ inflight' = inflight - 1
    /\ CASE o.kind = "empty" ->
              /\ searchError' = "No results."
              /\ UNCHANGED <<center, marker>>
         [] o.kind = "throw" ->
              /\ searchError' = "Search failed."
              /\ UNCHANGED <<center, marker>>
         [] o.kind = "hit" ->
              /\ center' = o.pos
              /\ marker' = o.pos
              /\ UNCHANGED searchError
    /\ UNCHANGED <<page, fileName, fileNumber, fileError, search, dashVars,
                   flowVars>>

\* handleContinue: navigate() unmounts the picker, whose state and pending
\* requests are dropped, and mounts the dashboard.
handleContinue ==
    /\ page = "picker"
    /\ IF ~canContinue \/ marker = "null"
       THEN UNCHANGED vars
       ELSE /\ page' = "dashboard"
            /\ code' = <<RouteCode(fileNumber[1])>>
            /\ navState' = <<[fileName |-> fileName, location |-> marker]>>
            /\ view' = <<>>
            /\ fileName' = <<>>
            /\ fileNumber' = <<>>
            /\ fileError' = ""
            /\ marker' = "null"
            /\ center' = "Auckland"
            /\ search' = <<>>
            /\ searchError' = ""
            /\ inflight' = 0
            /\ UNCHANGED flowVars

\* The "Back" link of the dashboard: the picker is mounted afresh.
Back ==
    /\ page = "dashboard"
    /\ page' = "picker"
    /\ code' = <<>>
    /\ navState' = <<>>
    /\ view' = <<>>
    /\ UNCHANGED <<pickerVars, flowVars>>

Next ==
    \/ \E e \in FileChangeEvents : onFileChange(e)
    \/ \E p \in Positions : ClickHandler(p)
    \/ \E text \in SearchTexts : setSearch(text)
    \/ doSearch
    \/ \E o \in SearchOutcomes : doSearchResume(o)
    \/ handleContinue
    \/ RenderDashboard
    \/ Back

Spec == Init /\ [][Next]_vars

-----------------------------------------------------------------------------
(* Properties *)

AllDigits(s) == \A i \in 1..Len(s) : s[i] \in Digits

Rendered == view # <<>>

\* C1: for every digit triple, the solar split sums to solar, the home split
\* sums to home, and all six parts are >= 0.
C1_AllocationsPartition ==
    Rendered =>
        LET v == view[1]
        IN  /\ v.toBattery + v.toHome + v.toGrid = v.solarKWh
            /\ v.fromSolar + v.fromBattery + v.fromGrid = v.homeKWh
            /\ v.toBattery >= 0 /\ v.toHome >= 0 /\ v.toGrid >= 0
            /\ v.fromSolar >= 0 /\ v.fromBattery >= 0 /\ v.fromGrid >= 0

\* A render where solar feeds the home: every part of the two splits matters.
C1_Witness ==
    /\ Rendered
    /\ view[1].toHome = 1
    /\ view[1].fromSolar = 1
    /\ view[1].toGrid > 0
    /\ view[1].fromGrid > 0

\* C2: whatever the route parameter, the normalized code has exactly three
\* characters, all digits, and is "000" when the parameter holds no digit.
C2_NormalizedCode ==
    Rendered =>
        LET n == view[1].normalized
        IN  /\ Len(n) = 3
            /\ AllDigits(n)
            /\ (code = <<>> \/ \A i \in 1..Len(code[1]) : code[1][i] \notin Digits)
                   => n = <<"0", "0", "0">>

\* A parameter longer than three characters that mixes digits and a
\* non-digit.
C2_Witness ==
    /\ Rendered
    /\ code = <<(<<"7", "x", "4", "2">>)>>
    /\ view[1].normalized = <<"7", "4", "2">>

\* C4: the weekly series has 12 entries, the hourly series 10, and every
\* numeric field of every entry is >= 0.
C4_SeriesShape ==
    Rendered =>
        LET v == view[1]
        IN  /\ Len(v.series) = 12
            /\ Len(v.daySeries) = 10
            /\ \A i \in 1..Len(v.series) :
                   /\ v.series[i].temperature >= 0
                   /\ v.series[i].humidity >= 0
                   /\ v.series[i].grid >= 0
            /\ \A i \in 1..Len(v.daySeries) :
                   /\ v.daySeries[i].toHome >= 0
                   /\ v.daySeries[i].orientation >= 0

\* A render whose series swing below their base quantities.
C4_Witness ==
    /\ Rendered
    /\ \E i \in 1..12 : view[1].series[i].temperature < view[1].solarKWh
    /\ \E i \in 1..12 : view[1].series[i].humidity < view[1].homeKWh
    /\ \E i \in 1..10 : view[1].daySeries[i].orientation < view[1].toGrid

\* C5: totalKWh = home + solar + grid, emissionsKg = (home + grid) * 0.45,
\* avoidedKg = solar * 0.45 (kg in hundredths), and code "333" gives
\* toBattery 0, toHome 0, toGrid 3, fromSolar 0, fromBattery 0, fromGrid 3,
\* totalKWh 9, emissionsKg 2.70, avoidedKg 1.35.
C5_Totals ==
    Rendered =>
        LET v == view[1]
        IN  /\ v.totalKWh = v.homeKWh + v.solarKWh + v.gridKWh
            /\ v.emissionsKg = (v.homeKWh + v.gridKWh) * 45
            /\ v.avoidedKg = v.solarKWh * 45
            /\ v.normalized = <<"3", "3", "3">> =>
                   /\ v.toBattery = 0 /\ v.toHome = 0 /\ v.toGrid = 3
                   /\ v.fromSolar = 0 /\ v.fromBattery = 0 /\ v.fromGrid = 3
                   /\ v.totalKWh = 9
                   /\ v.emissionsKg = 270
                   /\ v.avoidedKg = 135

C5_Witness == Rendered /\ code = <<(<<"3", "3", "3">>)>>

\* C6 as stated: each hourly toHome is max(0, base + round(sin((i/3) pi) *
\* base / 2)) with base = toHome, each orientation the same with cos and
\* base = toGrid.
C6_HourlyAsStated ==
    Rendered =>
        LET v == view[1]
        IN  \A i \in 0..9 :
                /\ v.daySeries[i + 1].toHome
                       = Max(0, v.toHome + MathRound(SinThird(i).v * v.toHome,
                                                     2 * Million, SinThird(i).e))
                /\ v.daySeries[i + 1].orientation
                       = Max(0, v.toGrid + MathRound(CosThird(i).v * v.toGrid,
                                                     2 * Million, 0))

\* x is max(0, .) of an integer nearest to (base / 5) * trig + base / 2,
\* trig in millionths.
NearestToHourly(x, base, trigV) ==
    LET n == 2 * base * trigV + 5 * base * Million
        d == 10 * Million
    IN  /\ x >= 0
        /\ \/ x = 0 /\ 2 * n <= d
           \/ 2 * d * x - d <= 2 * n /\ 2 * n <= 2 * d * x + d

\* C6 amended: each hourly toHome is max(0, round((base / 5) * sin((i/3) pi)
\* + base / 2)) with base = toHome, each orientation the same with cos and
\* base = toGrid; round is Math.round of the double the expression yields,
\* so the ties go up (3.5 -> 4, 1.5 -> 2, 0.5 -> 1) except at toHome = 1,
\* i = 6, where sin(2 pi) is a tiny negative double and the point is 0.
C6_HourlyAmended ==
    Rendered =>
        LET v == view[1]
        IN  /\ \A i \in 0..9 :
                   /\ NearestToHourly(v.daySeries[i + 1].toHome, v.toHome,
                                      SinThirdTab[i + 1])
                   /\ NearestToHourly(v.daySeries[i + 1].orientation, v.toGrid,
                                      CosThirdTab[i + 1])
            /\ v.toHome = 1 =>
                   /\ v.daySeries[1].toHome = 1
                   /\ v.daySeries[4].toHome = 1
                   /\ v.daySeries[7].toHome = 0
                   /\ v.daySeries[10].toHome = 1
            /\ v.toGrid = 5 =>
                   /\ v.daySeries[1].orientation = 4
                   /\ v.daySeries[4].orientation = 2
                   /\ v.daySeries[7].orientation = 4
                   /\ v.daySeries[10].orientation = 2

\* A render with toHome = 1 and toGrid = 5, where the ties occur and the
\* hourly points differ from the weekly formula.
C6_Witness ==
    /\ Rendered
    /\ view[1].toHome = 1
    /\ view[1].toGrid = 5
    /\ view[1].daySeries[1].orientation # WeeklyPoint(5, CosThird(0))

\* C7: the gauge value min(100, toBattery * 10) lies in [0, 100] for every
\* toBattery allocSolarFlows produces.
C7_GaugeRange ==
    flowOut # <<>> => flowOut[1].gauge >= 0 /\ flowOut[1].gauge <= 100

\* A battery share large enough for the clamp to act.
C7_Witness ==
    /\ flowOut # <<>>
    /\ flowOut[1].solar.toBattery * 10 > 100
    /\ flowOut[1].gauge = 100

\* C10: for every digit triple toBattery = 0, fromBattery = 0 and the gauge
\* is 0; toHome is 0 or 1, so fromSolar <= 1 and fromGrid >= home - 1.
C10_DigitFlowsAreSmall ==
    Rendered =>
        LET v == view[1]
        IN  /\ v.toBattery = 0
            /\ v.fromBattery = 0
            /\ v.gaugeVal = 0
            /\ v.toHome \in {0, 1}
            /\ v.fromSolar <= 1
            /\ v.fromGrid >= v.homeKWh - 1

\* The largest solar digit, with the home drawing its one kWh of solar.
C10_Witness ==
    /\ Rendered
    /\ view[1].solarKWh = 9
    /\ view[1].toHome = 1
    /\ view[1].fromSolar = 1
    /\ view[1].fromGrid = view[1].homeKWh - 1

-----------------------------------------------------------------------------
(* Properties of the upload-and-pick page *)

\* base is name without its extension: the last "." and the non-empty rest.
IsBaseOf(base, name) ==
    \/ /\ \E p \in 1..(Len(name) - 1) :
              /\ name[p] = "."
              /\ \A q \in (p + 1)..Len(name) : name[q] # "."
              /\ base = SubSeq(name, 1, p - 1)
    \/ /\ ~\E p \in 1..(Len(name) - 1) :
              name[p] = "." /\ \A q \in (p + 1)..Len(name) : name[q] # "."
       /\ base = name

\* The one to three digits that end base (the last three of a longer run)
\* read as the decimal number n.
EndsInNumber(base, n) ==
    \E k \in 1..Min(3, Len(base)) :
        LET ds == SubSeq(base, Len(base) - k + 1, Len(base))
        IN  /\ AllDigits(ds)
            /\ k = 3 \/ k = Len(base) \/ base[Len(base) - k] \notin Digits
            /\ ParseInt(ds) = n

\* The file name yields the number n, and n is in [1, 100].
YieldsAccepted(name, n) ==
    /\ n \in 1..100
    /\ \E b \in {SubSeq(name, 1, k) : k \in 0..Len(name)} :
           IsBaseOf(b, name) /\ EndsInNumber(b, n)

Navigates == page = "picker" /\ page' = "dashboard"

\* C3: Continue navigates to the dashboard only if the most recently
\* selected file name yielded a number in [1, 100] with no file error and a
\* marker is set; in every other state Continue changes nothing.
C3_ContinueGuard ==
    [][/\ Navigates =>
              /\ marker # "null"
              /\ fileError = ""
              /\ fileNumber # <<>>
              /\ YieldsAccepted(fileName, fileNumber[1])
       /\ (/\ handleContinue
           /\ ~(/\ marker # "null"
                /\ fileError = ""
                /\ \E n \in 1..100 : YieldsAccepted(fileName, n)))
              => UNCHANGED vars]_vars

\* Continue has navigated with the marker at P2 and the file "1.0", whose
\* number 1 stands before the extension.
C3_Witness ==
    /\ page = "dashboard"
    /\ navState # <<>>
    /\ navState[1].location = "P2"
    /\ navState[1].fileName = <<"1", ".", "0">>
    /\ code = <<(<<"0", "0", "1">>)>>

\* C8: every code handleContinue passes to the dashboard is three digits in
\* "001".."100", the accepted file number zero-padded, and useDigitsToKwh
\* returns it unchanged, its three characters being the digit triple.
C8_CodeRoundTrip ==
    (page = "dashboard" /\ navState # <<>>) =>
        /\ code # <<>>
        /\ Len(code[1]) = 3
        /\ AllDigits(code[1])
        /\ ParseInt(code[1]) \in 1..100
        /\ YieldsAccepted(navState[1].fileName, ParseInt(code[1]))
        /\ Rendered =>
               /\ view[1].normalized = code[1]
               /\ view[1].homeKWh = DigitVal(code[1][1])
               /\ view[1].solarKWh = DigitVal(code[1][2])
               /\ view[1].gridKWh = DigitVal(code[1][3])

\* The dashboard rendered for a code that needed padding.
C8_Witness ==
    /\ page = "dashboard"
    /\ navState # <<>>
    /\ Rendered
    /\ code = <<(<<"0", "0", "1">>)>>
    /\ view[1].gridKWh = 1

\* A step of doSearch that finds nothing: the query is blank, or the request
\* comes back empty or fails.
SearchFindsNothing ==
    \/ doSearch /\ Trim(search) = <<>>
    \/ \E o \in SearchOutcomes : o.kind # "hit" /\ doSearchResume(o)

\* C9: a search that is blank, returns no results or throws leaves marker and
\* center (and all but searchError) unchanged, whatever it is interleaved
\* with; and while the page is mounted a marker once set is never unset.
C9_FailedSearchFrame ==
    [][/\ SearchFindsNothing =>
              /\ marker' = marker
              /\ center' = center
              /\ UNCHANGED <<page, fileName, fileNumber, fileError, search,
                             dashVars>>
       /\ (page = "picker" /\ page' = "picker" /\ marker # "null")
              => marker' # "null"]_vars

\* A failed search reported while the marker (clicked at P1 after a hit at
\* P2) and the center stand, another request still pending.
C9_Witness ==
    /\ page = "picker"
    /\ marker = "P1"
    /\ center = "P2"
    /\ searchError = "Search failed."
    /\ inflight = 1

=============================================================================
